---- MODULE Spec2Model ----
(***************************************************************************)
(* A model of neuroglia/calcium.py: the scikit-learn style transformers    *)
(* MedianFilterDetrend, SavGolFilterDetrend, EventRescale, OASISInferer    *)
(* and Normalize, one instance of which is constructed, fitted,            *)
(* transformed with and cloned.                                            *)
(*                                                                         *)
(* Numbers.  Inputs are small integers.  Results that numpy computes in    *)
(* floating point are kept exact in fixed point: a median-filter result in *)
(* units of 1/Unit, a Savitzky-Golay result in units of 1/SgUnit, a dF/F   *)
(* value as a fraction, a logarithm as the symbolic value Log(arg).        *)
(***************************************************************************)
EXTENDS Integers, Sequences, FiniteSets, TLC

VARIABLES
    deconvolve,      \* which external solver oasis.functions.deconvolve is
    cls,             \* class of the instance under test
    params,          \* its constructor-set attributes (the configuration)
    has_fit_params,  \* whether the attribute self.fit_params exists
    fit_params,      \* self.fit_params: column name -> record (<<>> when unset)
    op,              \* the last call made on it: "init", "fit", "transform"
    X,               \* the table given to the last transform call
    result,          \* outcome of the last call
    solver_calls,    \* columns deconvolve() was invoked for in the last call
    solver_out,      \* what deconvolve() returned, by column, in the last call
    has_clone,       \* whether sklearn.base.clone(self) has been taken
    clone_params,    \* the clone's configuration
    clone_has_fit_params,
    clone_fit_params

vars == <<deconvolve, cls, params, has_fit_params, fit_params, op, X, result,
          solver_calls, solver_out, has_clone, clone_params,
          clone_has_fit_params, clone_fit_params>>

----------------------------------------------------------------------------
(* Bounds of the model and the input sets. *)

MaxRows == 2

Cols == {"a", "b"}
Vals == {-1, 1}

Range(s) == {s[i] : i \in DOMAIN s}

Abs(n) == IF n < 0 THEN -n ELSE n

Min(a, b) == IF a <= b THEN a ELSE b

Max(a, b) == IF a >= b THEN a ELSE b

\* The orderings of distinct column names a table can have (none, one, two).
ColumnOrders ==
    {<<>>} \cup {<<c>> : c \in Cols}
           \cup {<<c, d>> : <<c, d>> \in {p \in Cols \X Cols : p[1] # p[2]}}

Traces == UNION {[1..n -> Vals] : n \in 1..MaxRows}

Negate(t) == [i \in DOMAIN t |-> -t[i]]

\* A pandas DataFrame: ordered unique column names, one value sequence per
\* column, all of the length of the shared row index.  Column "a" carries the
\* trace and column "b" its mirror image, so that the columns differ.
MakeTable(cols, t) ==
    [columns |-> cols,
     rows    |-> Len(t),
     data    |-> [c \in Range(cols) |-> IF c = "a" THEN t ELSE Negate(t)]]

Tables == {MakeTable(cols, t) : cols \in ColumnOrders, t \in Traces}

NoTable == [columns |-> <<>>, rows |-> 0, data |-> <<>>]

NoParams == <<>>

----------------------------------------------------------------------------
(* Python and pandas primitives the transformers use. *)

EmptyDict == [k \in {} |-> 0]

\* d[k] = v on a dict: the key is added, or its value replaced.
SetItem(d, k, v) == [x \in (DOMAIN d) \cup {k} |-> IF x = k THEN v ELSE d[x]]

\* X_new[col] = values on a DataFrame: values of another length than the index
\* are refused (ValueError).
SetColumnRaises(df, values) == Len(values) # df.rows

\* A column assignment that drops the column and inserts it again in front.
SetColumn_reinserted(df, col, values) ==
    [columns |-> <<col>> \o SelectSeq(df.columns, LAMBDA c : c # col),
     rows    |-> df.rows,
     data    |-> SetItem(df.data, col, values)]

\* X_new[col] = values: an existing column is replaced where it stands, a new
\* one is appended after the others.
SetColumn(df, col, values) ==
    [columns |-> IF col \in Range(df.columns) THEN df.columns
                 ELSE Append(df.columns, col),
     rows    |-> df.rows,
     data    |-> SetItem(df.data, col, values)]

----------------------------------------------------------------------------
(* numpy / scipy primitives, on integer sequences. *)

\* The k-th smallest element of w (1 <= k <= Len(w)).
Kth(w, k) ==
    CHOOSE v \in Range(w) :
        /\ Cardinality({j \in DOMAIN w : w[j] < v}) < k
        /\ Cardinality({j \in DOMAIN w : w[j] <= v}) >= k

\* 2 * np.median(w): the middle element, or the mean of the two middle ones.
Median2(w) ==
    LET n == Len(w)
    IN  IF n % 2 = 1 THEN 2 * Kth(w, (n + 1) \div 2)
        ELSE Kth(w, n \div 2) + Kth(w, n \div 2 + 1)

\* scipy.signal.medfilt refuses an even kernel size (ValueError: "Each element
\* of kernel_size should be odd"); a kernel larger than the input is accepted.
medfilt_raises(x, kernel_size) == kernel_size % 2 # 1

\* scipy.signal.medfilt(x, kernel_size): the median of the window centred on
\* each sample, the input padded with zeros beyond both ends.
medfilt(x, kernel_size) ==
    LET h == (kernel_size - 1) \div 2
        win(i) == [j \in 1..kernel_size |->
                      LET p == i - h + j - 1
                      IN  IF p \in DOMAIN x THEN x[p] ELSE 0]
    IN  [i \in DOMAIN x |-> Kth(win(i), h + 1)]

\* scipy.signal.savgol_filter(x, window_length, polyorder), mode "interp",
\* refuses an even window, a polynomial order not below the window, and a
\* window longer than the input (ValueError each).
savgol_raises(x, window_length, polyorder) ==
    \/ window_length % 2 # 1
    \/ polyorder >= window_length
    \/ window_length > Len(x)

SgUnit == 2 * 3

\* scipy.signal.savgol_filter, in units of 1/SgUnit, for the windows 1 and 3
\* and the orders 0 and 1: the least-squares polynomial of each window at its
\* centre, and the polynomial of the first (last) window at the edge samples.
savgol_filter(x, window_length, polyorder) ==
    LET n == Len(x)
        sum3(i) == x[i - 1] + x[i] + x[i + 1]
    IN  IF window_length = 1 THEN [i \in DOMAIN x |-> SgUnit * x[i]]
        ELSE [i \in DOMAIN x |->
                IF polyorder = 0
                THEN 2 * sum3(IF i = 1 THEN 2 ELSE IF i = n THEN n - 1 ELSE i)
                ELSE IF i = 1 THEN 5 * x[1] + 2 * x[2] - x[3]
                ELSE IF i = n THEN 5 * x[n] + 2 * x[n - 1] - x[n - 2]
                ELSE 2 * sum3(i)]

\* np.log on one value: a positive argument has a logarithm, zero gives -inf
\* and a negative argument gives nan (numpy warns and raises nothing).
np_log(v) ==
    [kind |-> IF v > 0 THEN "log" ELSE IF v = 0 THEN "-inf" ELSE "nan",
     arg  |-> v]

\* The spike estimate passed on without clipping.
np_maximum0_unclipped(s) == s

\* np.maximum(0, s), elementwise.
np_maximum0(s) == [i \in DOMAIN s |-> Max(0, s[i])]

----------------------------------------------------------------------------
(* Outcomes of a call. *)

Returned(v) == [status |-> "returned", value |-> v, error |-> ""]

Raised(e) == [status |-> "raised", value |-> NoTable, error |-> e]

NoResult == [status |-> "none", value |-> NoTable, error |-> ""]

\* What a transform call carries from column to column: the copy being filled,
\* self.fit_params, the exception raised ("" while none), and the calls made
\* to the external solver with what it returned.
LoopStart_resetting(Xin, fp) ==
    [X_new |-> Xin, fit_params |-> EmptyDict, raised |-> "",
     calls |-> <<>>, outs |-> EmptyDict]

LoopStart(Xin, fp) ==
    [X_new |-> Xin, fit_params |-> fp, raised |-> "",
     calls |-> <<>>, outs |-> EmptyDict]

Outcome(st) == IF st.raised = "" THEN Returned(st.X_new) ELSE Raised(st.raised)

----------------------------------------------------------------------------
(* MedianFilterDetrend *)

MedianFilterDetrend_init(window, peak_std_threshold) ==
    [window |-> window, peak_std_threshold |-> peak_std_threshold]

Unit == 4 * 10000

MadScale == 14826

\* robust_std(x) = 1.4826 * median(|x - median(x)|), in units of 1/Unit.
robust_std(x) ==
    LET m2  == Median2(x)
        dev == [i \in DOMAIN x |-> Abs(2 * x[i] - m2)]
    IN  MadScale * Median2(dev)

\* The body of the loop of MedianFilterDetrend.transform, for one column.
MedianFilterDetrend_column(self, Xin, col, st) ==
    LET tmp_data == Xin.data[col]
        window   == self.params.window
        mf0      == medfilt(tmp_data, window)
        ceiling  == self.params.peak_std_threshold * robust_std(mf0)
        mf       == [i \in DOMAIN mf0 |-> Min(Unit * mf0[i], ceiling)]
        out      == [i \in DOMAIN tmp_data |-> Unit * tmp_data[i] - mf[i]]
    IN  IF medfilt_raises(tmp_data, window)
        THEN [st EXCEPT !.raised = "ValueError"]
        ELSE IF ~self.has_fit_params
        THEN [st EXCEPT !.raised = "AttributeError"]
        ELSE IF SetColumnRaises(st.X_new, out)
        THEN [st EXCEPT !.fit_params = SetItem(@, col, [mf |-> mf]),
                        !.raised = "ValueError"]
        ELSE [st EXCEPT !.fit_params = SetItem(@, col, [mf |-> mf]),
                        !.X_new = SetColumn(@, col, out)]

RECURSIVE MedianFilterDetrend_loop(_, _, _, _)
MedianFilterDetrend_loop(self, Xin, i, st) ==
    IF i > Len(Xin.columns) \/ st.raised # "" THEN st
    ELSE MedianFilterDetrend_loop(self, Xin, i + 1,
             MedianFilterDetrend_column(self, Xin, Xin.columns[i], st))

----------------------------------------------------------------------------
(* SavGolFilterDetrend *)

SavGolFilterDetrend_init(window, order) == [window |-> window, order |-> order]

\* The body of the loop of SavGolFilterDetrend.transform, for one column.
SavGolFilterDetrend_column(self, Xin, col, st) ==
    LET tmp_data == Xin.data[col]
        sgf      == savgol_filter(tmp_data, self.params.window, self.params.order)
        out      == [i \in DOMAIN tmp_data |-> SgUnit * tmp_data[i] - sgf[i]]
    IN  IF savgol_raises(tmp_data, self.params.window, self.params.order)
        THEN [st EXCEPT !.raised = "ValueError"]
        ELSE IF ~self.has_fit_params
        THEN [st EXCEPT !.raised = "AttributeError"]
        ELSE IF SetColumnRaises(st.X_new, out)
        THEN [st EXCEPT !.fit_params = SetItem(@, col, [sgf |-> sgf]),
                        !.raised = "ValueError"]
        ELSE [st EXCEPT !.fit_params = SetItem(@, col, [sgf |-> sgf]),
                        !.X_new = SetColumn(@, col, out)]

RECURSIVE SavGolFilterDetrend_loop(_, _, _, _)
SavGolFilterDetrend_loop(self, Xin, i, st) ==
    IF i > Len(Xin.columns) \/ st.raised # "" THEN st
    ELSE SavGolFilterDetrend_loop(self, Xin, i + 1,
             SavGolFilterDetrend_column(self, Xin, Xin.columns[i], st))

----------------------------------------------------------------------------
(* EventRescale *)

EventRescale_init(log_transform, scale) ==
    [log_transform |-> log_transform, scale |-> scale]

\* The body of the loop of EventRescale.transform, for one column.  Without
\* the logarithm a value is the integer x * scale; with it, np_log(1 + x*scale).
EventRescale_column(self, Xin, col, st) ==
    LET tmp_data == Xin.data[col]
        scaled   == [i \in DOMAIN tmp_data |-> tmp_data[i] * self.params.scale]
        out      == IF self.params.log_transform
                    THEN [i \in DOMAIN scaled |-> np_log(1 + scaled[i])]
                    ELSE scaled
    IN  IF SetColumnRaises(st.X_new, out)
        THEN [st EXCEPT !.raised = "ValueError"]
        ELSE [st EXCEPT !.X_new = SetColumn(@, col, out)]

RECURSIVE EventRescale_loop(_, _, _, _)
EventRescale_loop(self, Xin, i, st) ==
    IF i > Len(Xin.columns) \/ st.raised # "" THEN st
    ELSE EventRescale_loop(self, Xin, i + 1,
             EventRescale_column(self, Xin, Xin.columns[i], st))

----------------------------------------------------------------------------
(* OASISInferer and the external solver *)

OASISInferer_init(output, g, sn, b, b_nonneg, optimize_g, penalty, kwargs) ==
    [output |-> output, g |-> g, sn |-> sn, b |-> b, b_nonneg |-> b_nonneg,
     optimize_g |-> optimize_g, penalty |-> penalty, kwargs |-> kwargs]

\* The external solver is a deterministic function of the trace.  Two stand-ins
\* are checked: both return spike estimates with negative entries; the second
\* fails (SolverError) on a trace that starts below zero.
SolverIds == {"solver1", "solver2"}

deconvolve_raises(solver, y) == solver = "solver2" /\ y[1] < 0

\* The tuple (c, s, b, g, lam) the solver returns for the trace y.
deconvolve_returns(solver, y) ==
    IF solver = "solver1"
    THEN [c |-> [i \in DOMAIN y |-> y[i] + 2], s |-> y,
          b |-> 0, g |-> <<"g1">>, lam |-> 0]
    ELSE [c |-> [i \in DOMAIN y |-> 2 * y[i]],
          s |-> [i \in DOMAIN y |-> IF i = 1 THEN y[i] ELSE -y[i]],
          b |-> 1, g |-> <<"g2">>, lam |-> 1]

\* The body of the loop of OASISInferer.transform, for one column.
OASISInferer_column(self, Xin, col, st) ==
    LET y      == Xin.data[col]
        called == [st EXCEPT !.calls = Append(@, col)]
        t      == deconvolve_returns(deconvolve, y)
        got    == [called EXCEPT !.outs = SetItem(@, col, t)]
        stored == [got EXCEPT !.fit_params =
                       SetItem(@, col, [b |-> t.b, g |-> t.g, lam |-> t.lam])]
        out    == IF self.params.output = "denoised" THEN t.c
                  ELSE np_maximum0(t.s)
    IN  IF deconvolve_raises(deconvolve, y)
        THEN [called EXCEPT !.raised = "SolverError"]
        ELSE IF ~self.has_fit_params
        THEN [got EXCEPT !.raised = "AttributeError"]
        ELSE IF self.params.output \notin {"denoised", "spikes"}
        THEN [stored EXCEPT !.raised = "NotImplementedError"]
        ELSE IF SetColumnRaises(st.X_new, out)
        THEN [stored EXCEPT !.raised = "ValueError"]
        ELSE [stored EXCEPT !.X_new = SetColumn(@, col, out)]

RECURSIVE OASISInferer_loop(_, _, _, _)
OASISInferer_loop(self, Xin, i, st) ==
    IF i > Len(Xin.columns) \/ st.raised # "" THEN st
    ELSE OASISInferer_loop(self, Xin, i + 1,
             OASISInferer_column(self, Xin, Xin.columns[i], st))

----------------------------------------------------------------------------
(* normalize_trace and Normalize *)

\* The names bound at module level in calcium.py: its imports, classes and
\* function.  Neither pd (pandas) nor df is among them.
ModuleGlobals ==
    {"np", "TransformerMixin", "BaseEstimator", "deconvolve", "medfilt",
     "savgol_filter", "MedianFilterDetrend", "SavGolFilterDetrend",
     "EventRescale", "OASISInferer", "TraceTablizer", "normalize_trace",
     "Normalize"}

PctUnit == 4 * 25

\* np.percentile(w, q), in units of 1/PctUnit: linear interpolation between
\* the two order statistics around position q/100 * (len - 1).
percentile(w, q) ==
    LET t  == q * (Len(w) - 1)
        lo == t \div PctUnit
        f  == t % PctUnit
    IN  IF f = 0 THEN PctUnit * Kth(w, lo + 1)
        ELSE PctUnit * Kth(w, lo + 1) + f * (Kth(w, lo + 2) - Kth(w, lo + 1))

\* trace.rolling(window, center=True): the samples of the window of sample i,
\* which reaches (window - 1) div 2 samples ahead of it.
rolling_window(i, window) ==
    LET last == i + (window - 1) \div 2 IN (last - window + 1)..last

\* The computation of normalize_trace (with pandas bound to pd): the rolling
\* percentile where the window lies inside the trace, filled backward and then
\* forward elsewhere, and dF/F as the fraction num/den; nan where no window
\* lies inside the trace.
normalize_trace(trace, window, pct) ==
    LET n        == Len(trace)
        valid    == {i \in 1..n : rolling_window(i, window) \subseteq 1..n}
        base(i)  == percentile([j \in 1..window |->
                        trace[i + (window - 1) \div 2 - window + j]], pct)
        after(i) == {j \in valid : j >= i}
        prior(i) == {j \in valid : j <= i}
        least(S) == CHOOSE m \in S : \A k \in S : m <= k
        most(S)  == CHOOSE m \in S : \A k \in S : m >= k
        fill(i)  == IF after(i) # {} THEN base(least(after(i)))
                    ELSE base(most(prior(i)))
    IN  [i \in 1..n |->
            IF valid = {} THEN [nan |-> TRUE, num |-> 0, den |-> 0]
            ELSE [nan |-> FALSE, num |-> PctUnit * trace[i] - fill(i),
                  den |-> fill(i)]]

Normalize_init(window, pct) == [window |-> window, percentile |-> pct]

\* Normalize.transform: pd.DataFrame() and df.columns look up module globals
\* that are not bound, so the call raises NameError before it reads X.
Normalize_outcome(self, Xin) ==
    IF "pd" \notin ModuleGlobals \/ "df" \notin ModuleGlobals
    THEN [LoopStart(NoTable, self.fit_params) EXCEPT !.raised = "NameError"]
    ELSE LoopStart(NoTable, self.fit_params)

----------------------------------------------------------------------------
(* The instance under test and the calls made on it. *)

Windows == {1, 2, 3}

Orders == {0, 1}

\* OASISInferer's default arguments other than output and **kwargs.
OASISInferer_new(output, kwargs) ==
    OASISInferer_init(output, <<"None">>, "None", "None", TRUE, 0, 0, kwargs)

Configs ==
    {[cls |-> "MedianFilterDetrend", params |-> MedianFilterDetrend_init(w, 4)] :
        w \in Windows}
    \cup
    {[cls |-> "SavGolFilterDetrend", params |-> SavGolFilterDetrend_init(w, o)] :
        w \in Windows, o \in Orders}
    \cup
    {[cls |-> "EventRescale", params |-> EventRescale_init(l, sc)] :
        l \in BOOLEAN, sc \in {1, 5}}
    \cup
    {[cls |-> "OASISInferer", params |-> OASISInferer_new(o, kw)] :
        o \in {"spikes", "denoised", "raw"}, kw \in {EmptyDict, [s_min |-> 1]}}
    \cup
    {[cls |-> "Normalize", params |-> Normalize_init(w, q)] :
        w \in Windows, q \in {8, 50}}

Self ==
    [cls |-> cls, params |-> params, has_fit_params |-> has_fit_params,
     fit_params |-> fit_params]

\* The state after construction, self.fit_params existing or not.
Constructed(with_fit_params) ==
    /\ \E c \in Configs : cls = c.cls /\ params = c.params
    /\ deconvolve \in IF cls = "OASISInferer" THEN SolverIds ELSE {"solver1"}
    /\ has_fit_params = with_fit_params
    /\ fit_params = EmptyDict
    /\ op = "init"
    /\ X = NoTable
    /\ result = NoResult
    /\ solver_calls = <<>>
    /\ solver_out = EmptyDict
    /\ has_clone = FALSE
    /\ clone_params = NoParams
    /\ clone_has_fit_params = FALSE
    /\ clone_fit_params = EmptyDict

\* A constructor that also creates an empty self.fit_params.
Init_with_fit_params == Constructed(TRUE)

\* Construction: __init__ stores the configuration and nothing else.
Init == Constructed(FALSE)

cloneVars == <<has_clone, clone_params, clone_has_fit_params, clone_fit_params>>

\* fit(X): self.fit_params = {}; return self.  The argument is not read.
ResetFit ==
    /\ has_fit_params' = TRUE
    /\ fit_params' = EmptyDict
    /\ op' = "fit"
    /\ X' = NoTable
    /\ result' = [status |-> "self", value |-> NoTable, error |-> ""]
    /\ solver_calls' = <<>>
    /\ solver_out' = EmptyDict
    /\ UNCHANGED <<deconvolve, cls, params, cloneVars>>

\* What a transform call leaves behind.
Finish(Xin, st) ==
    /\ fit_params' = st.fit_params
    /\ op' = "transform"
    /\ X' = Xin
    /\ result' = Outcome(st)
    /\ solver_calls' = st.calls
    /\ solver_out' = st.outs
    /\ UNCHANGED <<deconvolve, cls, params, has_fit_params, cloneVars>>

MedianFilterDetrend_fit ==
    /\ cls = "MedianFilterDetrend"
    /\ ResetFit

MedianFilterDetrend_transform ==
    /\ cls = "MedianFilterDetrend"
    /\ \E Xin \in Tables :
          Finish(Xin, MedianFilterDetrend_loop(Self, Xin, 1,
                                               LoopStart(Xin, fit_params)))

SavGolFilterDetrend_fit ==
    /\ cls = "SavGolFilterDetrend"
    /\ ResetFit

SavGolFilterDetrend_transform ==
    /\ cls = "SavGolFilterDetrend"
    /\ \E Xin \in Tables :
          Finish(Xin, SavGolFilterDetrend_loop(Self, Xin, 1,
                                               LoopStart(Xin, fit_params)))

EventRescale_fit ==
    /\ cls = "EventRescale"
    /\ ResetFit

EventRescale_transform ==
    /\ cls = "EventRescale"
    /\ \E Xin \in Tables :
          Finish(Xin, EventRescale_loop(Self, Xin, 1, LoopStart(Xin, fit_params)))

OASISInferer_fit ==
    /\ cls = "OASISInferer"
    /\ ResetFit

OASISInferer_transform ==
    /\ cls = "OASISInferer"
    /\ \E Xin \in Tables :
          Finish(Xin, OASISInferer_loop(Self, Xin, 1, LoopStart(Xin, fit_params)))

\* Normalize.fit: return self.
Normalize_fit ==
    /\ cls = "Normalize"
    /\ op' = "fit"
    /\ X' = NoTable
    /\ result' = [status |-> "self", value |-> NoTable, error |-> ""]
    /\ solver_calls' = <<>>
    /\ solver_out' = EmptyDict
    /\ UNCHANGED <<deconvolve, cls, params, has_fit_params, fit_params, cloneVars>>

Normalize_transform ==
    /\ cls = "Normalize"
    /\ \E Xin \in Tables : Finish(Xin, Normalize_outcome(Self, Xin))

\* The parameters BaseEstimator.get_params reports: the named parameters of
\* the signature of __init__; a **kwargs parameter is not one of them.
get_params(c, p) ==
    IF c = "OASISInferer"
    THEN [n \in {"output", "g", "sn", "b", "b_nonneg", "optimize_g", "penalty"}
             |-> p[n]]
    ELSE p

\* klass(**args): the constructor of class c called with the keyword
\* arguments args.
construct(c, args) ==
    CASE c = "MedianFilterDetrend" ->
            MedianFilterDetrend_init(args.window, args.peak_std_threshold)
      [] c = "SavGolFilterDetrend" ->
            SavGolFilterDetrend_init(args.window, args.order)
      [] c = "EventRescale" ->
            EventRescale_init(args.log_transform, args.scale)
      [] c = "OASISInferer" ->
            OASISInferer_init(args.output, args.g, args.sn, args.b, args.b_nonneg,
                              args.optimize_g, args.penalty,
                              [k \in (DOMAIN args) \
                                   {"output", "g", "sn", "b", "b_nonneg",
                                    "optimize_g", "penalty"} |-> args[k]])
      [] c = "Normalize" ->
            Normalize_init(args.window, args.percentile)

\* sklearn.base.clone(self), as the tests call it: a new instance of the class
\* constructed from get_params(); the original is left as it is.
clone ==
    /\ has_clone' = TRUE
    /\ clone_params' = construct(cls, get_params(cls, params))
    /\ clone_has_fit_params' = FALSE
    /\ clone_fit_params' = EmptyDict
    /\ UNCHANGED <<deconvolve, cls, params, has_fit_params, fit_params, op, X,
                   result, solver_calls, solver_out>>

Next ==
    \/ MedianFilterDetrend_fit
    \/ MedianFilterDetrend_transform
    \/ SavGolFilterDetrend_fit
    \/ SavGolFilterDetrend_transform
    \/ EventRescale_fit
    \/ EventRescale_transform
    \/ OASISInferer_fit
    \/ OASISInferer_transform
    \/ Normalize_fit
    \/ Normalize_transform

NextClone == Next \/ clone

Spec == Init /\ [][Next]_vars

SpecClone == Init /\ [][NextClone]_vars

----------------------------------------------------------------------------
(* The claims. *)

\* The classes whose transform writes self.fit_params.
Fitting == {"MedianFilterDetrend", "SavGolFilterDetrend", "OASISInferer"}

TransformReturned == op = "transform" /\ result.status = "returned"

Keys(d) == DOMAIN d

\* C1 as claimed: once a transform call on table T (with a column) has
\* returned, the keys of fit_params are exactly the columns of T.
C1_KeysAreColumnsOfLastTable ==
    (cls \in Fitting /\ TransformReturned /\ X.columns # <<>>)
        => Keys(fit_params) = Range(X.columns)

\* The record of column c is the one computed from table Xin by the call that
\* returned outs from the solver.
RecordOf(c, rec, Xin, outs) ==
    CASE cls = "MedianFilterDetrend" -> Len(rec.mf) = Xin.rows
      [] cls = "SavGolFilterDetrend" -> Len(rec.sgf) = Xin.rows
      [] cls = "OASISInferer" ->
            rec = [b |-> outs[c].b, g |-> outs[c].g, lam |-> outs[c].lam]

\* What one call does to fit_params.
C1_Step ==
    cls \in Fitting =>
        /\ (op' = "transform" /\ result'.status = "returned")
              => /\ Keys(fit_params') = Keys(fit_params) \cup Range(X'.columns)
                 /\ \A c \in Keys(fit_params) \ Range(X'.columns) :
                        fit_params'[c] = fit_params[c]
                 /\ \A c \in Range(X'.columns) :
                        RecordOf(c, fit_params'[c], X', solver_out')
        /\ op' = "fit" => Keys(fit_params') = {}

\* C1 as amended: fit_params is emptied by fit and by nothing else.  A
\* transform call that returns adds the columns of its table to the keys
\* there were, writes the record of each of them anew and leaves the records
\* of all other columns as they were; a fit call leaves the mapping empty.
C1_TransformAccumulates == [][C1_Step]_vars

\* A transform call has returned and fit_params still holds a column of an
\* earlier call that the table of this call does not have.
C1_Witness ==
    /\ cls \in Fitting /\ TransformReturned /\ has_fit_params
    /\ X.columns # <<>>
    /\ Keys(fit_params) \ Range(X.columns) # {}

\* C2: a transform call that returns gives a table with the column names of
\* its input, in the same order, and as many rows in every column.
C2_ShapePreserved ==
    (cls \in Fitting \cup {"EventRescale"} /\ TransformReturned)
        => /\ result.value.columns = X.columns
           /\ DOMAIN result.value.data = Range(X.columns)
           /\ result.value.rows = X.rows
           /\ \A c \in Range(X.columns) :
                  Len(result.value.data[c]) = Len(X.data[c])

\* A transform call has returned a table of two columns, the second of which
\* comes first in alphabetical order, with the most rows the model has.
C2_Witness ==
    /\ cls \in Fitting \cup {"EventRescale"} /\ TransformReturned
    /\ X.columns = <<"b", "a">> /\ X.rows = MaxRows
    /\ result.value.columns = <<"b", "a">>

\* C3 as claimed: the instance has a fit-parameter mapping from construction
\* on, so that a transform call, also one with no fit call before it, finds the
\* mapping and, when it returns, has put a record in it for every input column.
C3_MappingFromConstruction ==
    (cls \in Fitting /\ op = "transform" /\ X.columns # <<>>)
        => /\ has_fit_params
           /\ result.error # "AttributeError"
           /\ result.status = "returned"
                 => Range(X.columns) \subseteq Keys(fit_params)

\* C3 as amended: construction creates no fit_params; fit creates it, empty.
\* While it does not exist, a transform call on a table with a column fails and
\* creates none; once it exists, a transform call that returns has put a record
\* in it for every input column.
C3_MappingFromFit ==
    cls \in Fitting
        => /\ op = "init" => ~has_fit_params
           /\ op = "fit" => has_fit_params /\ Keys(fit_params) = {}
           /\ ~has_fit_params
                 => /\ Keys(fit_params) = {}
                    /\ (op = "transform" /\ X.columns # <<>>)
                          => result.status = "raised"
           /\ (has_fit_params /\ TransformReturned)
                 => Range(X.columns) \subseteq Keys(fit_params)

\* A transform call on a table with a column, made before any fit call, has
\* failed on the missing attribute.
C3_Witness ==
    /\ cls \in Fitting /\ ~has_fit_params
    /\ op = "transform" /\ X.columns # <<>>
    /\ result.status = "raised" /\ result.error = "AttributeError"

\* C4: OASISInferer.transform with an output other than 'denoised' and
\* 'spikes' fails, for every input table.
C4_UnsupportedOutputFails ==
    (cls = "OASISInferer" /\ op = "transform"
        /\ params.output \notin {"denoised", "spikes"})
        => result.status = "raised"

\* C5: with output 'spikes' every value returned is max(0, s) of the solver's
\* spike estimate s, hence not negative; with output 'denoised' every column
\* returned is the solver's denoised trace.
C5_OutputSelected ==
    (cls = "OASISInferer" /\ TransformReturned)
        => \A c \in Range(X.columns) :
              /\ c \in Keys(solver_out)
              /\ params.output = "spikes"
                    => \A i \in 1..X.rows :
                          /\ result.value.data[c][i] >= 0
                          /\ result.value.data[c][i]
                                = (IF solver_out[c].s[i] > 0
                                   THEN solver_out[c].s[i] ELSE 0)
              /\ params.output = "denoised"
                    => result.value.data[c] = solver_out[c].c

\* The solver returned a negative spike estimate and the table returned has
\* zero in its place.
C5_Witness ==
    /\ cls = "OASISInferer" /\ TransformReturned /\ params.output = "spikes"
    /\ \E c \in Range(X.columns) : \E i \in 1..X.rows :
          solver_out[c].s[i] < 0 /\ result.value.data[c][i] = 0

\* C6: Normalize.transform(X) returns, for every column c of X,
\* normalize_trace(X[c], self.window, self.percentile).
C6_NormalizeUsesArguments ==
    (cls = "Normalize" /\ op = "transform")
        => /\ result.status = "returned"
           /\ result.value.columns = X.columns
           /\ \A c \in Range(X.columns) :
                  result.value.data[c]
                      = normalize_trace(X.data[c], params.window,
                                        params.percentile)

\* C7: a clone has the configuration of the original, the extra solver keyword
\* overrides included, and an empty fit-parameter state.
C7_CloneKeepsConfiguration ==
    has_clone
        => /\ clone_params = params
           /\ Keys(clone_fit_params) = {}

\* C8: MedianFilterDetrend.transform fails whenever the window is even or
\* exceeds the number of rows of the input column.
C8_BadWindowFails ==
    (cls = "MedianFilterDetrend" /\ op = "transform" /\ X.columns # <<>>
        /\ (params.window % 2 = 0 \/ params.window > X.rows))
        => result.status = "raised"

\* C9: EventRescale.transform with log_transform fails whenever some input
\* value x has 1 + x*scale < 0, and returns no table with nan in it.
C9_NegativeLogFails ==
    (cls = "EventRescale" /\ op = "transform" /\ params.log_transform
        /\ \E c \in Range(X.columns) : \E i \in 1..X.rows :
               1 + X.data[c][i] * params.scale < 0)
        => result.status = "raised"

\* A transform call that ends in NotImplementedError has called no solver and
\* changed no record.
C10_Step ==
    (cls = "OASISInferer" /\ op' = "transform"
        /\ result'.error = "NotImplementedError")
        => (solver_calls' = <<>> /\ fit_params' = fit_params)

\* C10: when OASISInferer.transform fails on an unsupported output, the solver
\* has not been invoked for any column and fit_params is as it was before the
\* call.
C10_FailsBeforeAnyWork == [][C10_Step]_vars

====
